---------------------------- MODULE Spec2Model ----------------------------
(***************************************************************************)
(* Model of the venue_score_flow pipeline (venue_score_flow/main.py), of   *)
(* its record merger (venue_score_flow/utils/venueUtils.py), of the        *)
(* control panel's email files (venue_score_flow/streamlit_app.py) and of  *)
(* kickoff() of the venue_search_flow revision (venue_search_flow/main.py).*)
(*                                                                         *)
(* Conventions.  An Optional[...] field is a sequence of length 0 (None)   *)
(* or 1 (the value).  A str that the code inspects character by character  *)
(* (a venue or score name) is a sequence of one-character strings; every   *)
(* other str is an atom.  A Python exception that leaves a function is     *)
(* recorded by its class name in exc.                                      *)
(***************************************************************************)
EXTENDS Integers, Sequences, FiniteSets, TLC

VARIABLES pc, venues, venue_score, hydrated_venues, scored_venues_feedback,
          tasks, score_raw, exc, redos,
          inputs, input_data, generated_emails, email_tasks, files,
          result, json_written, search_result, last_choice, feedback_log,
          completion, literal_emails,
          current_step, progress, report, crew_result, flow_output, status

\* The caller's side of a run: the dict given to run_with_inputs, what it
\* returned, whether the caller has written venue_search_results.json, and the
\* emails_<name>.txt files the control panel has written.
caller == <<inputs, result, json_written, literal_emails>>

\* The drafting stage: its per-venue tasks, state.generated_emails and the
\* files of the email_responses directory.
drafting == <<generated_emails, email_tasks, files>>

\* What the environment has handed the run so far: the search crew's result,
\* the operator's last choice and every feedback text the operator entered.
observed == <<search_result, last_choice, feedback_log>>

\* The venue_search_flow revision (venue_search_flow/main.py): the fields
\* current_step, progress and report of its VenueSearchState, what its crew
\* handed execute_search, the value flow.kickoff() returned and the dict
\* kickoff() returned. progress is counted in tenths.
search_flow == <<current_step, progress, report, crew_result, flow_output,
                 status>>

\* The state of venue_score_flow apart from pc and exc.
score_flow == <<venues, venue_score, hydrated_venues, scored_venues_feedback,
                tasks, score_raw, redos, input_data, caller, drafting,
                observed, completion>>

vars == <<pc, exc, score_flow, search_flow>>

---------------------------------------------------------------------------
(* Bounds of the model.                                                    *)

MaxVenues == 2
MaxScores == 2
MaxRedo == 2

---------------------------------------------------------------------------
(* Optional values and strings.                                            *)

None == <<>>

Some(x) == <<x>>

Get(o) == o[1]

\* "x or ''" on an Optional[str]: None and the empty string both give "".
OrEmpty(o) == IF o = None \/ o = Some("") THEN Some("") ELSE o

\* The whitespace str.strip() removes, among the characters of the model.
IsSpace(c) == c \in {" ", "\t"}

\* str.lower() on one character of the model's alphabet.
LowerChar(c) ==
    CASE c = "L" -> "l"
      [] c = "H" -> "h"
      [] c = "G" -> "g"
      [] c = "Z" -> "z"
      [] OTHER -> c

Lower(s) == [i \in 1..Len(s) |-> LowerChar(s[i])]

RECURSIVE LStrip(_)
LStrip(s) == IF s # <<>> /\ IsSpace(Head(s)) THEN LStrip(Tail(s)) ELSE s

RECURSIVE RStrip(_)
RStrip(s) ==
    IF s # <<>> /\ IsSpace(s[Len(s)]) THEN RStrip(SubSeq(s, 1, Len(s) - 1)) ELSE s

\* str.strip(): leading and trailing whitespace removed.
Strip(s) == RStrip(LStrip(s))

\* name.strip().lower(), the join key of venueUtils.py.
Normalize(s) == Lower(Strip(s))

---------------------------------------------------------------------------
(* The record types of types.py.                                           *)

VenueFields ==
    {"id", "name", "type", "address", "distance_km", "website", "phone",
     "email", "capacity", "amenities", "accessibility", "parking",
     "special_features", "audio_visual", "technology", "other"}

\* Venue(**data): every field but id defaults to None; id defaults to a
\* generated uuid.
Venue(data) ==
    [f \in VenueFields |->
        IF f \in DOMAIN data THEN data[f]
        ELSE IF f = "id" THEN "uuid" ELSE None]

VenueScoreFields == {"name", "score", "reason"}

\* VenueScore(**data): name, score and reason default to None; a key that is
\* no field of the class (an id, say) is ignored by pydantic.
VenueScore(data) ==
    [f \in VenueScoreFields |-> IF f \in DOMAIN data THEN data[f] ELSE None]

ScoredVenuesFields ==
    {"id", "name", "type", "address", "distance_km", "website", "phone",
     "email", "score", "reason"}

\* ScoredVenues(**data): the ten fields of the class, each defaulting to None;
\* other keys are ignored.
ScoredVenues(data) ==
    [f \in ScoredVenuesFields |-> IF f \in DOMAIN data THEN data[f] ELSE None]

---------------------------------------------------------------------------
(* The records the model draws its inputs from.                            *)

Name_L_padded == <<" ", "L", " ">>
Name_l == <<"l">>
Name_H == <<"H">>
Name_Z == <<"Z">>
Name_H_tabbed == <<"\t", "H">>

VenueA ==
    Venue([id |-> "a", name |-> Some(Name_L_padded), type |-> Some("loft"),
           address |-> Some("1 Main St"), distance_km |-> Some(1),
           website |-> Some("loft.example"), capacity |-> Some(100),
           amenities |-> Some(<<"wifi">>), parking |-> Some("street")])

VenueB ==
    Venue([id |-> "b", name |-> Some(Name_H), type |-> Some("hall"),
           address |-> Some("2 Main St"), distance_km |-> Some(2),
           website |-> Some(""), phone |-> Some("555"),
           email |-> Some("hall@example.com")])

VenueC ==
    Venue([id |-> "c", name |-> Some(Name_l), type |-> Some("loft"),
           email |-> Some("l@example.com")])

VenueD == Venue([id |-> "d", type |-> Some("bar")])

VenueE ==
    Venue([id |-> "e", name |-> Some(Name_H_tabbed), type |-> Some("hall"),
           address |-> Some("9 Side St"), distance_km |-> Some(3)])

VenuePool == {VenueA, VenueB, VenueC, VenueD}

\* What the scoring capability may answer for one venue, before it is
\* validated into a VenueScore.
ScoreDataPool ==
    { [name |-> Some(Name_l), score |-> Some(2), reason |-> Some("central")],
      [name |-> Some(<<"L">>), score |-> Some(1), reason |-> Some("small")],
      [name |-> Some(Name_H), score |-> Some(2), reason |-> Some("big")],
      [id |-> Some("a"), name |-> Some(Name_Z), score |-> Some(3),
       reason |-> Some("far")],
      [name |-> Some(Name_H), reason |-> Some("unrated")],
      [score |-> Some(1), reason |-> Some("unnamed")] }

BoundedSeq(S, n) == UNION {[1..k -> S] : k \in 0..n}

\* The VenueScore records validated from a list of answers (the crew's
\* output_pydantic=VenueScore).
VenueScoresOf(raw) == [i \in 1..Len(raw) |-> VenueScore(raw[i])]

---------------------------------------------------------------------------
(* combine_venues_with_scores (utils/venueUtils.py).                       *)

\* The result of a call: the exception that left it ("" for none) and the
\* value it returned.
Returned(v) == [exc |-> "", value |-> v]

Raised(e) == [exc |-> e, value |-> <<>>]

ScoreKeys(S) == {Normalize(Get(S[i].name)) : i \in 1..Len(S)}

LastIndexOf(S, k) ==
    CHOOSE i \in 1..Len(S) :
        /\ Normalize(Get(S[i].name)) = k
        /\ \A j \in 1..Len(S) : Normalize(Get(S[j].name)) = k => j <= i

\* A lookup map in which the first score with a key is kept.
ScoreDictFirstWins(S) ==
    [k \in ScoreKeys(S) |->
        S[CHOOSE i \in 1..Len(S) :
            /\ Normalize(Get(S[i].name)) = k
            /\ \A j \in 1..Len(S) : Normalize(Get(S[j].name)) = k => i <= j]]

\* score_dict = {score.name.strip().lower(): score for score in venue_scores}:
\* of two scores with one key the later replaces the earlier.
ScoreDict(S) == [k \in ScoreKeys(S) |-> S[LastIndexOf(S, k)]]

\* The ScoredVenues(...) call of lines 26-37.
HydrateOne(venue, score) ==
    ScoredVenues([id |-> Some(venue.id), name |-> venue.name,
                  type |-> venue.type, address |-> venue.address,
                  distance_km |-> venue.distance_km,
                  website |-> OrEmpty(venue.website),
                  phone |-> OrEmpty(venue.phone),
                  email |-> OrEmpty(venue.email),
                  score |-> score.score, reason |-> score.reason])

\* The loop of lines 20-40 from venue i on, scored_venues being acc.
RECURSIVE CombineLoop(_, _, _, _)
CombineLoop(V, dict, i, acc) ==
    IF i > Len(V) THEN Returned(acc)
    ELSE IF V[i].name = None THEN Raised("AttributeError")
    ELSE LET normalized_name == Normalize(Get(V[i].name))
         IN  IF normalized_name \in DOMAIN dict
             THEN CombineLoop(V, dict, i + 1,
                              Append(acc, HydrateOne(V[i], dict[normalized_name])))
             ELSE CombineLoop(V, dict, i + 1, acc)

\* A merger that joins venue i with score i.
RECURSIVE PositionalLoop(_, _, _, _)
PositionalLoop(V, S, i, acc) ==
    IF i > Len(V) THEN Returned(acc)
    ELSE IF V[i].name = None THEN Raised("AttributeError")
    ELSE IF i <= Len(S) /\ Normalize(Get(S[i].name)) = Normalize(Get(V[i].name))
         THEN PositionalLoop(V, S, i + 1, Append(acc, HydrateOne(V[i], S[i])))
         ELSE PositionalLoop(V, S, i + 1, acc)

combine_positional(V, S) ==
    IF \E i \in 1..Len(S) : S[i].name = None
    THEN Raised("AttributeError")
    ELSE PositionalLoop(V, S, 1, <<>>)

\* combine_venues_with_scores (lines 6-43): line 16 raises AttributeError on a
\* score whose name is None, line 21 on a venue whose name is None.
combine_venues_with_scores(V, S) ==
    IF \E i \in 1..Len(S) : S[i].name = None
    THEN Raised("AttributeError")
    ELSE CombineLoop(V, ScoreDict(S), 1, <<>>)

---------------------------------------------------------------------------
(* The merger on its own: a call on any venue list and any score list.     *)

MergeInit ==
    /\ pc = "merge_ready"
    /\ venues \in BoundedSeq(VenuePool, MaxVenues)
    /\ score_raw \in BoundedSeq(ScoreDataPool, MaxScores)
    /\ venue_score = VenueScoresOf(score_raw)
    /\ hydrated_venues = <<>>
    /\ scored_venues_feedback = None
    /\ tasks = <<>>
    /\ exc = ""
    /\ redos = 0
    /\ inputs = [keys |-> {}, email_template |-> <<>>]
    /\ input_data = None
    /\ generated_emails = <<>>
    /\ email_tasks = <<>>
    /\ files = <<>>
    /\ result = None
    /\ json_written = FALSE
    /\ search_result = None
    /\ last_choice = None
    /\ feedback_log = <<>>
    /\ completion = <<>>
    /\ literal_emails = <<>>
    /\ current_step = "initialization"
    /\ progress = 0
    /\ report = None
    /\ crew_result = None
    /\ flow_output = None
    /\ status = None

\* A call that writes each venue's normalized name back into the venue.
MergeCallInPlace ==
    /\ pc = "merge_ready"
    /\ LET r == combine_venues_with_scores(venues, venue_score)
       IN  /\ exc' = r.exc
           /\ hydrated_venues' = r.value
    /\ pc' = "merge_done"
    /\ venues' = [i \in 1..Len(venues) |->
                    IF venues[i].name = None THEN venues[i]
                    ELSE [venues[i] EXCEPT
                            !.name = Some(Normalize(Get(venues[i].name)))]]
    /\ UNCHANGED <<venue_score, scored_venues_feedback, tasks, score_raw, redos,
                   input_data, caller, drafting, observed>>
    /\ UNCHANGED completion
    /\ UNCHANGED search_flow

\* out = combine_venues_with_scores(venues, venue_score)
MergeCall ==
    /\ pc = "merge_ready"
    /\ LET r == combine_venues_with_scores(venues, venue_score)
       IN  /\ exc' = r.exc
           /\ hydrated_venues' = r.value
    /\ pc' = "merge_done"
    /\ UNCHANGED <<venues, venue_score, scored_venues_feedback, tasks,
                   score_raw, redos, input_data, caller, drafting, observed>>
    /\ UNCHANGED completion
    /\ UNCHANGED search_flow

MergeNext == MergeCall

SpecMerge == MergeInit /\ [][MergeNext]_vars

---------------------------------------------------------------------------
(* Properties of the merger, checked under SpecMerge.                      *)

HasKey(r) == r.name # None

\* Venue v and score s have the same normalized name.
Matches(v, s) ==
    /\ HasKey(v)
    /\ HasKey(s)
    /\ Normalize(Get(v.name)) = Normalize(Get(s.name))

\* The venues of V that some score of S matches, in the order of V.
Matched(V, S) ==
    SelectSeq(V, LAMBDA v : \E j \in 1..Len(S) : Matches(v, S[j]))

VenueIdent(v) == <<Some(v.id), v.name>>

ScoredIdent(sv) == <<sv.id, sv.name>>

VenueIdents(l) == [i \in 1..Len(l) |-> VenueIdent(l[i])]

ScoredIdents(l) == [i \in 1..Len(l) |-> ScoredIdent(l[i])]

MergeReturned == pc = "merge_done" /\ exc = ""

\* C1 (as claimed): for every V and S the merger returns, without raising, a
\* ScoredVenue for exactly the venues of V whose normalized name equals the
\* normalized name of some score of S, in the order of V.
C1_JoinsExactlyMatchingVenues ==
    pc = "merge_done" =>
        /\ exc = ""
        /\ ScoredIdents(hydrated_venues)
             = VenueIdents(Matched(venues, venue_score))

CarriesId(d) == "id" \in DOMAIN d /\ d.id # None

\* The id-first policy: by id when the score carries one (a Venue always
\* does), by normalized name otherwise.
IdFirstMatch(v, d) ==
    IF CarriesId(d) THEN Some(v.id) = d.id ELSE Matches(v, VenueScore(d))

\* C2 (as claimed): whenever the merger returns, the venues it joins are those
\* matched to a score by id when both carry one, and by normalized name only
\* when an id is missing.
C2_IdFirstThenName ==
    MergeReturned =>
        ScoredIdents(hydrated_venues)
          = VenueIdents(
                   SelectSeq(venues,
                             LAMBDA v : \E j \in 1..Len(score_raw) :
                                            IdFirstMatch(v, score_raw[j])))

\* C3 (as claimed): when some VenueScore has no name (and every venue has
\* one), the merger does not fail: the nameless score is left out of the
\* lookup and every venue is joined with the score that matches it.
C3_NamelessScoreIsSkipped ==
    ( /\ pc = "merge_done"
      /\ \E j \in 1..Len(venue_score) : ~HasKey(venue_score[j])
      /\ \A i \in 1..Len(venues) : HasKey(venues[i]) ) =>
        /\ exc = ""
        /\ ScoredIdents(hydrated_venues)
             = VenueIdents(Matched(venues, venue_score))

\* C4 (as claimed): when two venues normalize to one key, only the later one
\* is in the output: no ScoredVenue is produced for the earlier one.
C4_LaterVenueWins ==
    MergeReturned =>
        \A i, j \in 1..Len(venues) :
            ( /\ i < j
              /\ Matches(venues[i], venues[j])
              /\ VenueIdent(venues[i]) # VenueIdent(venues[j]) ) =>
                \A k \in 1..Len(hydrated_venues) :
                    ScoredIdent(hydrated_venues[k]) # VenueIdent(venues[i])

\* C4 (amended): in the list the merger returns every venue whose key has a
\* score appears, two venues with one key included, and each carries the score
\* and reason of the last score of S with its key (last-write-wins is over the
\* scores, not over the venues).
C4_LastScoreWinsAllVenuesKept ==
    MergeReturned =>
        LET M == Matched(venues, venue_score)
        IN  /\ Len(hydrated_venues) = Len(M)
            /\ \A k \in 1..Len(M) :
                /\ ScoredIdent(hydrated_venues[k]) = VenueIdent(M[k])
                /\ \E j \in 1..Len(venue_score) :
                    /\ Matches(M[k], venue_score[j])
                    /\ \A l \in (j + 1)..Len(venue_score) :
                           ~Matches(M[k], venue_score[l])
                    /\ hydrated_venues[k].score = venue_score[j].score
                    /\ hydrated_venues[k].reason = venue_score[j].reason

\* Two different venues with one key are both in the output, and two scores
\* with that key carry different values.
C4_Witness ==
    /\ MergeReturned
    /\ Len(hydrated_venues) = 2
    /\ Len(venues) = 2
    /\ venues[1] # venues[2]
    /\ Matches(venues[1], venues[2])
    /\ Len(venue_score) = 2
    /\ Matches(venues[1], venue_score[1])
    /\ Matches(venues[1], venue_score[2])
    /\ venue_score[1].score # venue_score[2].score

\* C5 (as claimed): every ScoredVenue of the output carries every field of its
\* venue with the venue's value (None staying None), and the score and reason
\* of a score that matches it.
C5_CarriesEveryVenueField ==
    MergeReturned =>
        LET M == Matched(venues, venue_score)
        IN  /\ Len(hydrated_venues) = Len(M)
            /\ \A k \in 1..Len(M) :
                /\ \A f \in VenueFields \ {"id"} :
                    /\ f \in DOMAIN hydrated_venues[k]
                    /\ hydrated_venues[k][f] = M[k][f]
                /\ hydrated_venues[k].id = Some(M[k].id)
                /\ \E j \in 1..Len(venue_score) :
                    /\ Matches(M[k], venue_score[j])
                    /\ hydrated_venues[k].score = venue_score[j].score
                    /\ hydrated_venues[k].reason = venue_score[j].reason

\* C7: a call of the merger changes neither the venue list nor the score list
\* nor any record in them.
C7_InputsUnchanged ==
    [][pc' = "merge_done" => venues' = venues /\ venue_score' = venue_score]_vars

\* A call on a venue with a padded name has returned a ScoredVenue for it.
C7_Witness ==
    /\ MergeReturned
    /\ \E i \in 1..Len(venues) :
        /\ HasKey(venues[i])
        /\ Get(venues[i].name) # Normalize(Get(venues[i].name))
    /\ hydrated_venues # <<>>

PermuteSeq(s, f) == [i \in 1..Len(s) |-> s[f[i]]]

\* C8: whatever the order of S, the call ends the same way and the same venues
\* appear in its output.
C8_ScoreOrderIrrelevant ==
    pc = "merge_done" =>
        \A f \in Permutations(1..Len(venue_score)) :
            LET r == combine_venues_with_scores(venues, PermuteSeq(venue_score, f))
            IN  /\ r.exc = exc
                /\ ScoredIdents(r.value)
                     = ScoredIdents(hydrated_venues)

\* A call with two different scores, one of which matched a venue.
C8_Witness ==
    /\ MergeReturned
    /\ Len(venue_score) = 2
    /\ ~Matches(venue_score[1], venue_score[2])
    /\ Len(venues) = 2
    /\ Len(hydrated_venues) = 1

---------------------------------------------------------------------------
(* VenueScoreFlow (main.py).  pc is the place of the run:                  *)
(*   call       run_with_inputs has been called with inputs                *)
(*   returned   run_with_inputs has returned None without starting a flow  *)
(*   start      the flow is constructed, kickoff has not run a method      *)
(*   search     initialize_state has returned                              *)
(*   score      search_venues has returned                                 *)
(*   scoring    score_venues awaits the gather of its per-venue tasks      *)
(*   scored     score_venues has returned                                  *)
(*   hydrated   hydrate_venues has returned                                *)
(*   drafting   write_and_save_emails awaits the gather of its tasks       *)
(*   drafted    write_and_save_emails has returned the state               *)
(*   done       run_with_inputs has returned the state and the caller has  *)
(*              written it to venue_search_results.json                    *)
(*   redo, reprompt, proceed, exited   human_in_the_loop has returned      *)
(*              "score_venues_feedback", "human_in_the_loop",              *)
(*              "generate_emails", or has called exit()                    *)
(*   crashed    an exception has left a method                             *)
(* human_in_the_loop carries no decorator (its @router(score_venues) line  *)
(* is a comment), so kickoff never calls it: HumanInTheLoop is a call of   *)
(* the method by the operator's driver once a scoring pass has returned,   *)
(* and its return value is routed as the listener of score_venues names it.*)

\* One item of a parsed search result: whether it is a JSON object, whether
\* Venue(**item) validates, and the Venue it then builds.
DictItem(v) == [dict |-> TRUE, valid |-> TRUE, data |-> v]

InvalidItem(v) == [dict |-> TRUE, valid |-> FALSE, data |-> v]

NonDictItem == [dict |-> FALSE, valid |-> FALSE, data |-> VenueD]

\* result.raw of the search crew: empty, not JSON, a JSON scalar, one JSON
\* object (value), or a JSON list (items).
SearchResultPool ==
    { [kind |-> "empty"],
      [kind |-> "invalid_json"],
      [kind |-> "scalar"],
      [kind |-> "object", value |-> DictItem(VenueB)],
      [kind |-> "list", items |-> <<>>],
      [kind |-> "list", items |-> <<DictItem(VenueA), DictItem(VenueB)>>],
      [kind |-> "list", items |-> <<DictItem(VenueC), DictItem(VenueA)>>],
      [kind |-> "list", items |-> <<DictItem(VenueB), DictItem(VenueE)>>],
      [kind |-> "list", items |-> <<DictItem(VenueB), NonDictItem,
                                     InvalidItem(VenueC), DictItem(VenueD)>>] }

\* The feedback texts the operator may enter, each a sequence of words.
FeedbackPool == {<<"cheaper">>, <<"larger">>}

ChoicePool == {"1", "2", "3", "x"}

\* required_fields of run_with_inputs (line 335).
RequiredFieldsWithoutSender ==
    {"address", "radius_km", "event_date", "event_time", "sender_name"}

RequiredFields ==
    {"address", "radius_km", "event_date", "event_time", "sender_name",
     "sender_email"}

ApiKeys == {"openai_key", "serper_key"}

InputDataFields ==
    {"address", "radius_km", "event_date", "event_time", "linkedin_url",
     "instagram_url", "tiktok_url", "sender_name", "sender_email",
     "email_template"}

\* The dicts run_with_inputs is called with: the keys present and the value
\* of email_template when it is one of them, a str cut into its literal
\* parts and its placeholders ("" is the empty sequence).
InputsPool ==
    { [keys |-> RequiredFields \cup ApiKeys \cup {"email_template"},
       email_template |-> <<>>],
      [keys |-> RequiredFields \cup ApiKeys \cup {"email_template"},
       email_template |-> <<"Dear ", "{venue_name}", ",">>],
      [keys |-> RequiredFields \cup ApiKeys, email_template |-> <<>>],
      [keys |-> RequiredFields \cup {"email_template"}, email_template |-> <<>>],
      [keys |-> {}, email_template |-> <<>>] }
    \cup { [keys |-> (RequiredFields \ {f}) \cup ApiKeys \cup {"email_template"},
            email_template |-> <<>>] : f \in RequiredFields }

\* InputData(**inputs): a key that is no field is ignored, a field that is no
\* key is None.
InputData(d) ==
    [f \in InputDataFields |->
        IF f \notin d.keys THEN None
        ELSE IF f = "email_template" THEN Some(d.email_template)
        ELSE Some("given")]

Init ==
    /\ pc = "call"
    /\ inputs \in InputsPool
    /\ input_data = None
    /\ generated_emails = <<>>
    /\ email_tasks = <<>>
    /\ files = <<>>
    /\ result = None
    /\ json_written = FALSE
    /\ search_result = None
    /\ last_choice = None
    /\ feedback_log = <<>>
    /\ completion = <<>>
    /\ literal_emails = <<>>
    /\ current_step = "initialization"
    /\ progress = 0
    /\ report = None
    /\ crew_result = None
    /\ flow_output = None
    /\ status = None
    /\ venues = <<>>
    /\ venue_score = <<>>
    /\ hydrated_venues = <<>>
    /\ scored_venues_feedback = None
    /\ tasks = <<>>
    /\ score_raw = <<>>
    /\ exc = ""
    /\ redos = 0

\* run_with_inputs up to kickoff_async (lines 331-351): None is returned when
\* a required field is missing; inputs['openai_key'] and inputs['serper_key']
\* raise KeyError when absent; otherwise the flow is built on a state that
\* holds the InputData.
RunWithInputs ==
    /\ pc = "call"
    /\ IF ~(RequiredFields \subseteq inputs.keys)
       THEN /\ pc' = "returned"
            /\ UNCHANGED <<input_data, exc>>
       ELSE IF ~(ApiKeys \subseteq inputs.keys)
       THEN /\ pc' = "crashed"
            /\ exc' = "KeyError"
            /\ UNCHANGED input_data
       ELSE /\ pc' = "start"
            /\ input_data' = Some(InputData(inputs))
            /\ UNCHANGED exc
    /\ UNCHANGED <<venues, venue_score, hydrated_venues,
                   scored_venues_feedback, tasks, score_raw, redos, caller,
                   drafting, observed>>
    /\ UNCHANGED completion
    /\ UNCHANGED search_flow

\* initialize_state (lines 50-56).
InitializeState ==
    /\ pc = "start"
    /\ pc' = "search"
    /\ UNCHANGED <<venues, venue_score, hydrated_venues,
                   scored_venues_feedback, tasks, score_raw, exc, redos,
                   input_data, caller, drafting, observed>>
    /\ UNCHANGED completion
    /\ UNCHANGED search_flow

\* A loop that ends at the first item that is no dict or does not validate.
RECURSIVE AppendUntilInvalid(_, _)
AppendUntilInvalid(vs, items) ==
    IF items = <<>> THEN vs
    ELSE LET it == Head(items)
         IN  IF it.dict /\ it.valid
             THEN AppendUntilInvalid(Append(vs, Venue(it.data)), Tail(items))
             ELSE vs

\* The loop of lines 101-109: each item that is a dict and validates is
\* appended to state.venues.
RECURSIVE AppendValid(_, _)
AppendValid(vs, items) ==
    IF items = <<>> THEN vs
    ELSE LET it == Head(items)
         IN  IF it.dict /\ it.valid
             THEN AppendValid(Append(vs, Venue(it.data)), Tail(items))
             ELSE AppendValid(vs, Tail(items))

\* venues_data of lines 87-99 for a result that is an object or a list: an
\* object is wrapped in a one-element list.
VenuesData(r) == IF r.kind = "object" THEN <<r.value>> ELSE r.items

\* A search stage that takes a list only and treats an object as it does any
\* other result.
SearchVenuesListOnly ==
    /\ pc = "search"
    /\ input_data # None
    /\ \E r \in SearchResultPool :
        /\ search_result' = Some(r)
        /\ venues' = IF r.kind = "list"
                     THEN AppendValid(venues, VenuesData(r))
                     ELSE venues
    /\ pc' = "score"
    /\ UNCHANGED <<venue_score, hydrated_venues, scored_venues_feedback,
                   tasks, score_raw, exc, redos, input_data, caller, drafting,
                   last_choice, feedback_log>>
    /\ UNCHANGED completion
    /\ UNCHANGED search_flow

\* search_venues (lines 58-112) on the result the search crew returns; with
\* no input_data it returns before the search (lines 63-65).
SearchVenues ==
    /\ pc = "search"
    /\ IF input_data = None
       THEN UNCHANGED <<venues, search_result>>
       ELSE \E r \in SearchResultPool :
               /\ search_result' = Some(r)
               /\ venues' = IF r.kind \in {"object", "list"}
                            THEN AppendValid(venues, VenuesData(r))
                            ELSE venues
    /\ pc' = "score"
    /\ UNCHANGED <<venue_score, hydrated_venues, scored_venues_feedback,
                   tasks, score_raw, exc, redos, input_data, caller, drafting,
                   last_choice, feedback_log>>
    /\ UNCHANGED completion
    /\ UNCHANGED search_flow

\* score_venues up to its await (lines 115-157): one task per venue, none of
\* them completed.
ScoreVenuesStart ==
    /\ pc \in {"score", "redo"}
    /\ tasks' = [i \in 1..Len(venues) |-> [status |-> "pending", data |-> None]]
    /\ pc' = "scoring"
    /\ UNCHANGED <<venues, venue_score, hydrated_venues,
                   scored_venues_feedback, score_raw, exc, redos, input_data,
                   caller, drafting, observed>>
    /\ completion' = <<>>
    /\ UNCHANGED search_flow

\* score_single_venue (lines 121-151) for venue i, from the return of its
\* kickoff_async: a validated score, no pydantic output, or an exception;
\* completion lists the tasks of the pass in the order they ended.
ScoreSingleVenue(i) ==
    /\ pc = "scoring"
    /\ i \in 1..Len(tasks)
    /\ tasks[i].status = "pending"
    /\ \/ \E d \in ScoreDataPool :
            tasks' = [tasks EXCEPT ![i] = [status |-> "scored", data |-> Some(d)]]
       \/ tasks' = [tasks EXCEPT ![i] = [status |-> "no_score", data |-> None]]
       \/ tasks' = [tasks EXCEPT ![i] = [status |-> "failed", data |-> None]]
    /\ UNCHANGED <<pc, venues, venue_score, hydrated_venues,
                   scored_venues_feedback, score_raw, exc, redos, input_data,
                   caller, drafting, observed>>
    /\ completion' = Append(completion, i)
    /\ UNCHANGED search_flow

\* The payloads of the tasks, an empty answer standing for a task that
\* returned no score.
RECURSIVE ScoredDataKeepingNone(_)
ScoredDataKeepingNone(ts) ==
    IF ts = <<>> THEN <<>>
    ELSE IF Head(ts).status = "scored"
         THEN <<Get(Head(ts).data)>> \o ScoredDataKeepingNone(Tail(ts))
         ELSE <<[reason |-> None]>> \o ScoredDataKeepingNone(Tail(ts))

\* The payloads of the tasks that returned a score, in task order.
RECURSIVE ScoredData(_)
ScoredData(ts) ==
    IF ts = <<>> THEN <<>>
    ELSE IF Head(ts).status = "scored"
         THEN <<Get(Head(ts).data)>> \o ScoredData(Tail(ts))
         ELSE ScoredData(Tail(ts))

\* A gather that adds the scores of the pass to those already stored.
ScoreVenuesGatherAppending ==
    /\ pc = "scoring"
    /\ \A i \in 1..Len(tasks) : tasks[i].status \in {"scored", "no_score"}
    /\ score_raw' = score_raw \o ScoredData(tasks)
    /\ venue_score' = venue_score \o VenueScoresOf(ScoredData(tasks))
    /\ pc' = "scored"
    /\ UNCHANGED <<venues, hydrated_venues, scored_venues_feedback, tasks,
                   exc, redos, input_data, caller, drafting, observed>>
    /\ UNCHANGED completion
    /\ UNCHANGED search_flow

\* The payloads of the tasks that returned a score, listed in order.
RECURSIVE ScoredDataInOrder(_, _)
ScoredDataInOrder(ts, order) ==
    IF order = <<>> THEN <<>>
    ELSE IF ts[Head(order)].status = "scored"
         THEN <<Get(ts[Head(order)].data)>> \o ScoredDataInOrder(ts, Tail(order))
         ELSE ScoredDataInOrder(ts, Tail(order))

\* A gather that yields the results in the order the tasks completed.
ScoreVenuesGatherAsCompleted ==
    /\ pc = "scoring"
    /\ \A i \in 1..Len(tasks) : tasks[i].status \in {"scored", "no_score"}
    /\ score_raw' = ScoredDataInOrder(tasks, completion)
    /\ venue_score' = VenueScoresOf(ScoredDataInOrder(tasks, completion))
    /\ pc' = "scored"
    /\ UNCHANGED <<venues, hydrated_venues, scored_venues_feedback, tasks,
                   exc, redos, input_data, caller, drafting, observed>>
    /\ UNCHANGED completion
    /\ UNCHANGED search_flow

\* score_venues from the return of asyncio.gather (lines 157-163), no task
\* having raised: state.venue_score is assigned the results that are not None.
ScoreVenuesGather ==
    /\ pc = "scoring"
    /\ \A i \in 1..Len(tasks) : tasks[i].status \in {"scored", "no_score"}
    /\ score_raw' = ScoredData(tasks)
    /\ venue_score' = VenueScoresOf(ScoredData(tasks))
    /\ pc' = "scored"
    /\ UNCHANGED <<venues, hydrated_venues, scored_venues_feedback, tasks,
                   exc, redos, input_data, caller, drafting, observed>>
    /\ UNCHANGED completion
    /\ UNCHANGED search_flow

\* asyncio.gather (line 157) re-raises the exception of a task that raised.
ScoreVenuesRaise ==
    /\ pc = "scoring"
    /\ \E i \in 1..Len(tasks) : tasks[i].status = "failed"
    /\ exc' = "Exception"
    /\ pc' = "crashed"
    /\ UNCHANGED <<venues, venue_score, hydrated_venues,
                   scored_venues_feedback, tasks, score_raw, redos, input_data,
                   caller, drafting, observed>>
    /\ UNCHANGED completion
    /\ UNCHANGED search_flow

\* The place a stable descending sort gives x in a list that is non-increasing
\* by score: after the elements whose score is not smaller.
RECURSIVE InsertByScore(_, _)
InsertByScore(s, x) ==
    IF s = <<>> THEN <<x>>
    ELSE IF Get(Head(s).score) >= Get(x.score)
         THEN <<Head(s)>> \o InsertByScore(Tail(s), x)
         ELSE <<x>> \o s

\* The same, before the elements of equal score.
RECURSIVE InsertBeforeEqual(_, _)
InsertBeforeEqual(s, x) ==
    IF s = <<>> THEN <<x>>
    ELSE IF Get(Head(s).score) > Get(x.score)
         THEN <<Head(s)>> \o InsertBeforeEqual(Tail(s), x)
         ELSE <<x>> \o s

RECURSIVE SortFrom(_, _, _)
SortFrom(l, i, acc) ==
    IF i > Len(l) THEN acc ELSE SortFrom(l, i + 1, InsertByScore(acc, l[i]))

RECURSIVE SortFromReversingTies(_, _, _)
SortFromReversingTies(l, i, acc) ==
    IF i > Len(l) THEN acc
    ELSE SortFromReversingTies(l, i + 1, InsertBeforeEqual(acc, l[i]))

\* An ascending sort read backwards: equal scores end in reverse order.
sorted_then_reversed(l) ==
    IF Len(l) >= 2 /\ \E i \in 1..Len(l) : l[i].score = None
    THEN Raised("TypeError")
    ELSE Returned(SortFromReversingTies(l, 1, <<>>))

\* sorted(l, key=lambda v: v.score, reverse=True): a stable sort, largest score
\* first; comparing a None score with another score raises TypeError.
sorted_by_score_reverse(l) ==
    IF Len(l) >= 2 /\ \E i \in 1..Len(l) : l[i].score = None
    THEN Raised("TypeError")
    ELSE Returned(SortFrom(l, 1, <<>>))

\* Lines 241-252 and 170-181: state.hydrated_venues is assigned the merger's
\* output and then the sorted list; the result is the exception that ended
\* the lines and the value state.hydrated_venues is left with.
Hydration ==
    LET merged == combine_venues_with_scores(venues, venue_score)
    IN  IF merged.exc # "" THEN [exc |-> merged.exc, value |-> hydrated_venues]
        ELSE LET s == sorted_by_score_reverse(merged.value)
             IN  IF s.exc # "" THEN [exc |-> s.exc, value |-> merged.value]
                 ELSE s

\* A hydration that removes from state.venues the venues it cannot join.
HydrateVenuesConsuming ==
    /\ pc = "scored"
    /\ LET h == Hydration
       IN  /\ hydrated_venues' = h.value
           /\ exc' = h.exc
           /\ pc' = IF h.exc = "" THEN "hydrated" ELSE "crashed"
    /\ venues' = SelectSeq(venues, LAMBDA v : v.name # None)
    /\ UNCHANGED <<venue_score, scored_venues_feedback, tasks,
                   score_raw, redos, input_data, caller, drafting, observed>>
    /\ UNCHANGED completion
    /\ UNCHANGED search_flow

\* hydrate_venues (lines 236-253).
HydrateVenues ==
    /\ pc = "scored"
    /\ LET h == Hydration
       IN  /\ hydrated_venues' = h.value
           /\ exc' = h.exc
           /\ pc' = IF h.exc = "" THEN "hydrated" ELSE "crashed"
    /\ UNCHANGED <<venues, venue_score, scored_venues_feedback, tasks,
                   score_raw, redos, input_data, caller, drafting, observed>>
    /\ UNCHANGED completion
    /\ UNCHANGED search_flow

\* A gate that takes any input that is no valid choice as the choice to quit.
HumanInTheLoopInvalidQuits ==
    /\ pc \in {"scored", "reprompt"}
    /\ LET h == Hydration
       IN  /\ hydrated_venues' = h.value
           /\ exc' = h.exc
           /\ IF h.exc # ""
              THEN /\ pc' = "crashed"
                   /\ UNCHANGED <<scored_venues_feedback, redos, observed>>
              ELSE \E choice \in ChoicePool :
                     /\ last_choice' = Some(choice)
                     /\ UNCHANGED search_result
                     /\ CASE choice = "1" ->
                              /\ pc' = "exited"
                              /\ UNCHANGED <<scored_venues_feedback, redos,
                                             feedback_log>>
                         [] choice = "2" ->
                              /\ redos < MaxRedo
                              /\ \E feedback \in FeedbackPool :
                                   /\ scored_venues_feedback' = Some(feedback)
                                   /\ feedback_log' = Append(feedback_log, feedback)
                              /\ redos' = redos + 1
                              /\ pc' = "redo"
                         [] choice = "3" ->
                              /\ pc' = "proceed"
                              /\ UNCHANGED <<scored_venues_feedback, redos,
                                             feedback_log>>
                         [] OTHER ->
                              /\ pc' = "exited"
                              /\ UNCHANGED <<scored_venues_feedback, redos,
                                             feedback_log>>
    /\ UNCHANGED <<venues, venue_score, tasks, score_raw, input_data, caller,
                   drafting>>
    /\ UNCHANGED completion
    /\ UNCHANGED search_flow

\* human_in_the_loop (lines 166-218) with the operator's choice and, for
\* choice "2", the operator's feedback.
HumanInTheLoop ==
    /\ pc \in {"scored", "reprompt"}
    /\ LET h == Hydration
       IN  /\ hydrated_venues' = h.value
           /\ exc' = h.exc
           /\ IF h.exc # ""
              THEN /\ pc' = "crashed"
                   /\ UNCHANGED <<scored_venues_feedback, redos, observed>>
              ELSE \E choice \in ChoicePool :
                     /\ last_choice' = Some(choice)
                     /\ UNCHANGED search_result
                     /\ CASE choice = "1" ->
                              /\ pc' = "exited"
                              /\ UNCHANGED <<scored_venues_feedback, redos,
                                             feedback_log>>
                         [] choice = "2" ->
                              /\ redos < MaxRedo
                              /\ \E feedback \in FeedbackPool :
                                   /\ scored_venues_feedback' = Some(feedback)
                                   /\ feedback_log' = Append(feedback_log, feedback)
                              /\ redos' = redos + 1
                              /\ pc' = "redo"
                         [] choice = "3" ->
                              /\ pc' = "proceed"
                              /\ UNCHANGED <<scored_venues_feedback, redos,
                                             feedback_log>>
                         [] OTHER ->
                              /\ pc' = "reprompt"
                              /\ UNCHANGED <<scored_venues_feedback, redos,
                                             feedback_log>>
    /\ UNCHANGED <<venues, venue_score, tasks, score_raw, input_data, caller,
                   drafting>>
    /\ UNCHANGED completion
    /\ UNCHANGED search_flow

\* The characters re.sub(r"[^a-zA-Z0-9_\- ]", "", name) keeps, among those of
\* the model's alphabet.
AllowedChars == {"L", "l", "H", "h", "G", "g", "Z", "z", "_", "-", " "}

RECURSIVE Sanitize(_)
Sanitize(s) ==
    IF s = <<>> THEN <<>>
    ELSE IF Head(s) \in AllowedChars
         THEN <<Head(s)>> \o Sanitize(Tail(s))
         ELSE Sanitize(Tail(s))

\* result.raw of the response crew for the venue at place i of the hydrated
\* list.
DraftFor(i) == [venue_id |-> hydrated_venues[i].id, place |-> i]

\* The condition of line 260.
TemplateIsEmpty == Get(input_data).email_template = Some(<<>>)

\* A drafting stage that also runs once the operator has quit.
WriteEmailsStartAfterQuit ==
    /\ pc \in {"hydrated", "exited"}
    /\ IF TemplateIsEmpty
       THEN /\ email_tasks' = [i \in 1..Len(hydrated_venues) |-> "pending"]
            /\ pc' = "drafting"
       ELSE /\ pc' = "drafted"
            /\ UNCHANGED email_tasks
    /\ UNCHANGED <<venues, venue_score, hydrated_venues,
                   scored_venues_feedback, tasks, score_raw, exc, redos,
                   input_data, caller, generated_emails, files, observed>>
    /\ UNCHANGED completion
    /\ UNCHANGED search_flow

\* write_and_save_emails up to its await (lines 256-319): with an empty
\* email_template one task per hydrated venue; otherwise it returns the state
\* at once (line 329).
WriteEmailsStart ==
    /\ pc = "hydrated"
    /\ IF TemplateIsEmpty
       THEN /\ email_tasks' = [i \in 1..Len(hydrated_venues) |-> "pending"]
            /\ pc' = "drafting"
       ELSE /\ pc' = "drafted"
            /\ UNCHANGED email_tasks
    /\ UNCHANGED <<venues, venue_score, hydrated_venues,
                   scored_venues_feedback, tasks, score_raw, exc, redos,
                   input_data, caller, generated_emails, files, observed>>
    /\ UNCHANGED completion
    /\ UNCHANGED search_flow

\* A task that writes its file and does not record the email in the state.
WriteEmailFileOnly(i) ==
    /\ pc = "drafting"
    /\ i \in 1..Len(email_tasks)
    /\ email_tasks[i] = "pending"
    /\ \/ /\ email_tasks' = [email_tasks EXCEPT ![i] = "written"]
          /\ files' = (Sanitize(Get(hydrated_venues[i].name)) :> DraftFor(i))
                        @@ files
          /\ UNCHANGED generated_emails
       \/ /\ email_tasks' = [email_tasks EXCEPT ![i] = "failed"]
          /\ UNCHANGED <<files, generated_emails>>
    /\ UNCHANGED <<pc, venues, venue_score, hydrated_venues,
                   scored_venues_feedback, tasks, score_raw, exc, redos,
                   input_data, caller, observed>>
    /\ UNCHANGED completion
    /\ UNCHANGED search_flow

\* write_email (lines 270-310) for the venue at place i, from the return of
\* its kickoff_async: the draft is written to <sanitized name>.txt and stored
\* in state.generated_emails under the venue's name, or the call raised.
WriteEmail(i) ==
    /\ pc = "drafting"
    /\ i \in 1..Len(email_tasks)
    /\ email_tasks[i] = "pending"
    /\ \/ /\ email_tasks' = [email_tasks EXCEPT ![i] = "written"]
          /\ files' = (Sanitize(Get(hydrated_venues[i].name)) :> DraftFor(i))
                        @@ files
          /\ generated_emails' = (Get(hydrated_venues[i].name) :> DraftFor(i))
                                   @@ generated_emails
       \/ /\ email_tasks' = [email_tasks EXCEPT ![i] = "failed"]
          /\ UNCHANGED <<files, generated_emails>>
    /\ UNCHANGED <<pc, venues, venue_score, hydrated_venues,
                   scored_venues_feedback, tasks, score_raw, exc, redos,
                   input_data, caller, observed>>
    /\ UNCHANGED completion
    /\ UNCHANGED search_flow

\* A gather that returns once some task has completed.
WriteEmailsGatherEarly ==
    /\ pc = "drafting"
    /\ \/ email_tasks = <<>>
       \/ \E i \in 1..Len(email_tasks) : email_tasks[i] = "written"
    /\ \A i \in 1..Len(email_tasks) : email_tasks[i] # "failed"
    /\ pc' = "drafted"
    /\ UNCHANGED <<venues, venue_score, hydrated_venues,
                   scored_venues_feedback, tasks, score_raw, exc, redos,
                   input_data, caller, drafting, observed>>
    /\ UNCHANGED completion
    /\ UNCHANGED search_flow

\* write_and_save_emails from the return of asyncio.gather (lines 319-329), no
\* task having raised.
WriteEmailsGather ==
    /\ pc = "drafting"
    /\ \A i \in 1..Len(email_tasks) : email_tasks[i] = "written"
    /\ pc' = "drafted"
    /\ UNCHANGED <<venues, venue_score, hydrated_venues,
                   scored_venues_feedback, tasks, score_raw, exc, redos,
                   input_data, caller, drafting, observed>>
    /\ UNCHANGED completion
    /\ UNCHANGED search_flow

\* asyncio.gather (line 319) re-raises the exception of a task that raised.
WriteEmailsRaise ==
    /\ pc = "drafting"
    /\ \E i \in 1..Len(email_tasks) : email_tasks[i] = "failed"
    /\ exc' = "Exception"
    /\ pc' = "crashed"
    /\ UNCHANGED <<venues, venue_score, hydrated_venues,
                   scored_venues_feedback, tasks, score_raw, redos,
                   input_data, caller, drafting, observed>>
    /\ UNCHANGED completion
    /\ UNCHANGED search_flow

\* A return of the state that leaves the JSON file unwritten.
ReturnWithoutSerializing ==
    /\ pc = "drafted"
    /\ result' = Some("VenueScoreState")
    /\ pc' = "done"
    /\ UNCHANGED <<venues, venue_score, hydrated_venues,
                   scored_venues_feedback, tasks, score_raw, exc, redos,
                   input_data, inputs, json_written, literal_emails, drafting,
                   observed>>
    /\ UNCHANGED completion
    /\ UNCHANGED search_flow

\* kickoff_async returns the state write_and_save_emails returned,
\* run_with_inputs returns it (lines 352-360) and the caller, run (lines
\* 388-394), writes it to venue_search_results.json.
ReturnAndSerialize ==
    /\ pc = "drafted"
    /\ result' = Some("VenueScoreState")
    /\ json_written' = TRUE
    /\ pc' = "done"
    /\ UNCHANGED <<venues, venue_score, hydrated_venues,
                   scored_venues_feedback, tasks, score_raw, exc, redos,
                   input_data, inputs, literal_emails, drafting, observed>>
    /\ UNCHANGED completion
    /\ UNCHANGED search_flow

\* str.replace("{venue_name}", name) on a template.
RECURSIVE ReplaceVenueName(_, _)
ReplaceVenueName(template, name) ==
    IF template = <<>> THEN <<>>
    ELSE IF Head(template) = "{venue_name}"
         THEN name \o ReplaceVenueName(Tail(template), name)
         ELSE <<Head(template)>> \o ReplaceVenueName(Tail(template), name)

\* The loop of streamlit_app.py lines 207-212 from venue i on:
\* formatted_template is assigned the result of the replacement and written
\* to emails_<venue.name>.txt.
RECURSIVE LiteralLoop(_, _, _)
LiteralLoop(i, formatted_template, written) ==
    IF i > Len(hydrated_venues) THEN written
    ELSE LET name == Get(hydrated_venues[i].name)
             replaced == ReplaceVenueName(formatted_template, name)
         IN  LiteralLoop(i + 1, replaced, (name :> replaced) @@ written)

\* The control panel after run_with_inputs has returned a state and the JSON
\* file is written (streamlit_app.py lines 200-213): with a non-empty
\* template it writes one file per hydrated venue.
StreamlitWriteEmails ==
    /\ pc = "done"
    /\ "email_template" \in inputs.keys
    /\ literal_emails' = IF inputs.email_template # <<>>
                         THEN LiteralLoop(1, inputs.email_template, literal_emails)
                         ELSE literal_emails
    /\ pc' = "emailed"
    /\ UNCHANGED <<venues, venue_score, hydrated_venues,
                   scored_venues_feedback, tasks, score_raw, exc, redos,
                   input_data, inputs, result, json_written, drafting,
                   observed, completion>>
    /\ UNCHANGED search_flow

Next ==
    \/ RunWithInputs
    \/ InitializeState
    \/ SearchVenues
    \/ ScoreVenuesStart
    \/ \E i \in 1..Len(tasks) : ScoreSingleVenue(i)
    \/ ScoreVenuesGather
    \/ ScoreVenuesRaise
    \/ HydrateVenues
    \/ HumanInTheLoop
    \/ WriteEmailsStart
    \/ \E i \in 1..Len(email_tasks) : WriteEmail(i)
    \/ WriteEmailsGather
    \/ WriteEmailsRaise
    \/ ReturnAndSerialize
    \/ StreamlitWriteEmails

Spec == Init /\ [][Next]_vars

\* The flow under the assumption that a step that can be taken is taken in
\* the end: the event loop runs every listener and every task whose await
\* has returned, and every external request returns.
SpecLive == Init /\ [][Next]_vars /\ WF_vars(Next)

---------------------------------------------------------------------------
(* The venue_search_flow revision: kickoff() of venue_search_flow/main.py. *)

MaxOutputs == 2

\* What a task output of the crew is to the loop of lines 179-244: the basic
\* info of a venue, its features, its score, an email, a report, a dict with
\* the keys of a report that does not validate, or a str that is no JSON.
OutputKinds ==
    {"venue", "features", "score", "email", "report", "bad_report", "junk"}

ReportSources == {"none", "valid", "invalid"}

\* What the crew hands execute_search: no crew instance, no result, a result
\* without tasks_outputs, an exception, or task outputs together with the
\* report in the crew's _state and the report file, each absent, valid or
\* invalid.
CrewResultPool ==
    { [kind |-> k] : k \in {"no_crew", "no_result", "no_outputs", "raised"} }
    \cup { [kind |-> "outputs", tasks_outputs |-> o, crew_state_report |-> c,
            report_file |-> f] :
              o \in BoundedSeq(OutputKinds, MaxOutputs),
              c \in ReportSources, f \in ReportSources }

ReportDocument(source) == Some([source |-> source])

\* The loop of lines 179-244 over the task outputs outs; st holds
\* current_step, progress, report and report_processed.
RECURSIVE ProcessOutputs(_, _)
ProcessOutputs(outs, st) ==
    IF outs = <<>> THEN st
    ELSE LET kind == Head(outs)
             next ==
               CASE kind = "venue" ->
                      [st EXCEPT !.current_step = "location_analysis",
                                 !.progress = 4]
                 [] kind = "features" ->
                      [st EXCEPT !.current_step = "feature_extraction",
                                 !.progress = 6]
                 [] kind = "score" ->
                      [st EXCEPT !.current_step = "scoring", !.progress = 8]
                 [] kind = "report" ->
                      [st EXCEPT !.current_step = "report_generation",
                                 !.progress = 9,
                                 !.report = ReportDocument("final_answer"),
                                 !.report_processed = TRUE]
                 [] OTHER -> st
         IN  ProcessOutputs(Tail(outs), next)

\* Lines 248-272: without a processed report the report of the crew's _state
\* is taken when it validates, and failing that the report file.
Fallbacks(r, st) ==
    IF st.report_processed THEN st
    ELSE IF r.crew_state_report = "valid"
         THEN [st EXCEPT !.report = ReportDocument("crew_state"),
                         !.report_processed = TRUE]
    ELSE IF r.report_file = "valid"
         THEN [st EXCEPT !.report = ReportDocument("file"),
                         !.report_processed = TRUE]
    ELSE st

SearchFlowInit ==
    /\ pc = "sf_call"
    /\ venues = <<>>
    /\ score_raw = <<>>
    /\ venue_score = <<>>
    /\ hydrated_venues = <<>>
    /\ scored_venues_feedback = None
    /\ tasks = <<>>
    /\ exc = ""
    /\ redos = 0
    /\ inputs = [keys |-> {}, email_template |-> <<>>]
    /\ input_data = None
    /\ generated_emails = <<>>
    /\ email_tasks = <<>>
    /\ files = <<>>
    /\ result = None
    /\ json_written = FALSE
    /\ search_result = None
    /\ last_choice = None
    /\ feedback_log = <<>>
    /\ completion = <<>>
    /\ literal_emails = <<>>
    /\ current_step = "initialization"
    /\ progress = 0
    /\ report = None
    /\ crew_result = None
    /\ flow_output = None
    /\ status = None

\* kickoff up to flow.kickoff() (lines 312-320): os.environ[...] = None raises
\* TypeError when an API key is not in the environment; __init__ (lines
\* 76-84) sets current_step "initialization", progress 0.0.
Kickoff ==
    /\ pc = "sf_call"
    /\ \E keys_in_env \in BOOLEAN :
         IF keys_in_env
         THEN /\ pc' = "sf_start"
              /\ current_step' = "initialization"
              /\ progress' = 0
              /\ UNCHANGED exc
         ELSE /\ pc' = "crashed"
              /\ exc' = "TypeError"
              /\ UNCHANGED <<current_step, progress>>
    /\ UNCHANGED <<report, crew_result, flow_output, status, score_flow>>

\* initialize_search (lines 101-110).
InitializeSearch ==
    /\ pc = "sf_start"
    /\ current_step' = "initialization"
    /\ progress' = 1
    /\ pc' = "sf_search"
    /\ UNCHANGED <<exc, report, crew_result, flow_output, status, score_flow>>

\* execute_search (lines 112-279) on what the crew hands it.
ExecuteSearch ==
    /\ pc = "sf_search"
    /\ \E r \in CrewResultPool :
         /\ crew_result' = Some(r)
         /\ LET started == [current_step |-> "location_analysis",
                            progress |-> 2, report |-> report,
                            report_processed |-> FALSE]
                st == IF r.kind = "outputs"
                      THEN Fallbacks(r, ProcessOutputs(r.tasks_outputs, started))
                      ELSE started
            IN  /\ current_step' = st.current_step
                /\ progress' = st.progress
                /\ report' = st.report
         /\ IF r.kind = "raised"
            THEN pc' = "crashed" /\ exc' = "Exception"
            ELSE pc' = "sf_save" /\ UNCHANGED exc
    /\ UNCHANGED <<flow_output, status, score_flow>>

\* save_report (lines 281-310): progress is set to report_generation 0.9;
\* without a report the error dict is returned and the state is left there,
\* with one the state is set to completed 1.0 and returned as a dict.
SaveReport ==
    /\ pc = "sf_save"
    /\ IF report = None
       THEN /\ current_step' = "report_generation"
            /\ progress' = 9
            /\ flow_output' = Some([current_step |-> "error", progress |-> 0])
       ELSE /\ current_step' = "completed"
            /\ progress' = 10
            /\ flow_output' = Some([current_step |-> "completed",
                                    progress |-> 10])
    /\ pc' = "sf_saved"
    /\ UNCHANGED <<exc, report, crew_result, status, score_flow>>

\* kickoff from the return of flow.kickoff() (lines 320-333): the returned
\* dict is built from flow.state.
KickoffReturn ==
    /\ pc = "sf_saved"
    /\ status' = Some([current_step |-> current_step, progress |-> progress])
    /\ pc' = "sf_returned"
    /\ UNCHANGED <<exc, current_step, progress, report, crew_result,
                   flow_output, score_flow>>

SearchFlowNext ==
    \/ Kickoff
    \/ InitializeSearch
    \/ ExecuteSearch
    \/ SaveReport
    \/ KickoffReturn

SpecSearchFlow == SearchFlowInit /\ [][SearchFlowNext]_vars

---------------------------------------------------------------------------
(* Properties of the flow, checked under Spec.                             *)

\* hydrate_venues or human_in_the_loop has completed its hydration.
HydrationCompleted ==
    pc \in {"hydrated", "exited", "redo", "proceed", "reprompt", "drafting",
           "drafted", "done", "emailed"}

NonIncreasingByScore(l) ==
    \A i, j \in 1..Len(l) : i < j => Get(l[i].score) >= Get(l[j].score)

\* l is a rearrangement of m in which elements of equal score keep the order
\* they have in m.
StableRearrangement(l, m) ==
    /\ Len(l) = Len(m)
    /\ \E f \in Permutations(1..Len(m)) :
        /\ \A k \in 1..Len(m) : l[k] = m[f[k]]
        /\ \A i, j \in 1..Len(m) :
              (i < j /\ l[i].score = l[j].score) => f[i] < f[j]

\* C9: whenever hydrate_venues or the hydration of human_in_the_loop has
\* completed, state.hydrated_venues is non-increasing by score and venues of
\* equal score are in the order of the merger's output.
C9_HydratedSortedStable ==
    HydrationCompleted =>
        /\ NonIncreasingByScore(hydrated_venues)
        /\ StableRearrangement(
               hydrated_venues,
               combine_venues_with_scores(venues, venue_score).value)

\* hydrate_venues has completed on two different venues of equal score.
C9_Witness ==
    /\ pc = "hydrated"
    /\ Len(hydrated_venues) = 2
    /\ hydrated_venues[1].score = hydrated_venues[2].score
    /\ hydrated_venues[1] # hydrated_venues[2]

NumberScored == Cardinality({i \in 1..Len(tasks) : tasks[i].status = "scored"})

\* C10: when a scoring pass has completed, first or redo, state.venue_score
\* holds the scores of that pass only: as many as venues were scored in it.
C10_PassReplacesScores ==
    pc = "scored" =>
        /\ Len(venue_score) = NumberScored
        /\ Len(venue_score) <= Len(venues)
        /\ \A k \in 1..Len(venue_score) :
              \E i \in 1..Len(tasks) :
                  /\ tasks[i].status = "scored"
                  /\ venue_score[k] = VenueScore(Get(tasks[i].data))

\* A redo pass has completed with fewer scores than the pass before it, whose
\* scores human_in_the_loop had all joined.
C10_Witness ==
    /\ pc = "scored"
    /\ redos = 1
    /\ Len(venue_score) = 1
    /\ Len(hydrated_venues) = 2

\* C11 (as claimed): a scoring call that fails does not make score_venues
\* raise.
C11_FailedScoringCallTolerated ==
    (\E i \in 1..Len(tasks) : tasks[i].status = "failed") => pc # "crashed"

\* text holds the words of part, in a row.
Contains(text, part) ==
    \E i \in 0..(Len(text) - Len(part)) :
        SubSeq(text, i + 1, i + Len(part)) = part

\* C12 (as claimed): state.scored_venues_feedback holds the feedback text of
\* every redo cycle so far.
C12_FeedbackAccumulates ==
    \A k \in 1..Len(feedback_log) :
        /\ scored_venues_feedback # None
        /\ Contains(Get(scored_venues_feedback), feedback_log[k])

\* C13 (as claimed): write_and_save_emails runs only once the operator has
\* chosen to proceed at the decision gate.
C13_DraftingOnlyAfterProceed ==
    pc \in {"drafting", "drafted", "done"} => last_choice = Some("3")

\* The venues of the items that are objects and validate, in order.
ValidVenuesOf(items) ==
    LET good == SelectSeq(items, LAMBDA it : it.dict /\ it.valid)
    IN  [i \in 1..Len(good) |-> good[i].data]

\* C14: search_venues returns without raising whatever the search result is;
\* state.venues then holds the venue of a single object, the venues of a list
\* in order, and stays empty for any other result.
C14_SearchResultShapes ==
    [][pc = "search" =>
         /\ pc' \in {"search", "score"}
         /\ pc' = "score" =>
              LET r == Get(search_result')
              IN  CASE r.kind = "object" -> venues' = ValidVenuesOf(<<r.value>>)
                    [] r.kind = "list" -> venues' = ValidVenuesOf(r.items)
                    [] OTHER -> venues' = <<>> /\ venues = <<>>]_vars

\* search_venues has returned with the venue of a single object.
C14_Witness ==
    /\ pc = "score"
    /\ Get(search_result).kind = "object"
    /\ Len(venues) = 1

ClaimedRequiredFields ==
    {"address", "radius_km", "event_date", "event_time", "sender_name",
     "sender_email"}

\* C15: with a required field missing, run_with_inputs returns None: no flow
\* is built, no stage runs, nothing is written.
C15_MissingFieldFailsFast ==
    ~(ClaimedRequiredFields \subseteq inputs.keys) =>
        /\ pc \in {"call", "returned"}
        /\ result = None
        /\ input_data = None
        /\ venues = <<>>
        /\ search_result = None
        /\ tasks = <<>>
        /\ generated_emails = <<>>
        /\ files = <<>>
        /\ ~json_written

\* run_with_inputs has returned None for inputs that lack only sender_email.
C15_Witness ==
    /\ pc = "returned"
    /\ ClaimedRequiredFields \ inputs.keys = {"sender_email"}

\* C16 (as claimed): at every terminal outcome, quit or end of drafting, the
\* state has been written to the JSON file and returned to the caller.
C16_TerminalSerializes ==
    pc \in {"exited", "done"} => json_written /\ result # None

\* C16 (amended): when the drafting stage has ended the state is returned and
\* written to the JSON file; when the operator quits, exit() ends the process:
\* nothing is returned and no JSON file is written.
C16_SerializedAtEndNotAtQuit ==
    /\ pc = "done" => json_written /\ result = Some("VenueScoreState")
    /\ pc = "exited" => ~json_written /\ result = None

\* A run has ended after drafting two emails.
C16_Witness ==
    /\ pc = "done"
    /\ Len(email_tasks) = 2

\* C17: once the operator has quit at the gate no email file exists and
\* state.generated_emails is empty.
C17_QuitWritesNoEmail ==
    last_choice = Some("1") =>
        /\ pc = "exited"
        /\ files = <<>>
        /\ generated_emails = <<>>
        /\ email_tasks = <<>>

\* The operator has quit a run that would draft for two hydrated venues.
C17_Witness ==
    /\ pc = "exited"
    /\ TemplateIsEmpty
    /\ Len(hydrated_venues) = 2

DraftingEnded == pc \in {"drafted", "done", "emailed"}

\* C18 (as claimed): when the drafting stage has ended, every hydrated venue's
\* name is mapped to its draft and there is one file per venue.
C18_OneEmailPerVenue ==
    DraftingEnded =>
        /\ \A i \in 1..Len(hydrated_venues) :
            /\ Get(hydrated_venues[i].name) \in DOMAIN generated_emails
            /\ generated_emails[Get(hydrated_venues[i].name)] = DraftFor(i)
        /\ Cardinality(DOMAIN files) = Len(hydrated_venues)

\* C18 (amended): when the drafting stage has ended and email_template is the
\* empty string, every hydrated venue's name is mapped to a draft made for a
\* venue of that name and a file named by its sanitized name holds a draft
\* made for a venue of that sanitized name; with any other email_template the
\* stage drafts nothing.
C18_EmailPerNameWhenTemplateEmpty ==
    DraftingEnded =>
        IF TemplateIsEmpty
        THEN \A i \in 1..Len(hydrated_venues) :
               LET n == Get(hydrated_venues[i].name)
               IN  /\ n \in DOMAIN generated_emails
                   /\ \E j \in 1..Len(hydrated_venues) :
                        /\ hydrated_venues[j].name = hydrated_venues[i].name
                        /\ generated_emails[n] = DraftFor(j)
                   /\ Sanitize(n) \in DOMAIN files
                   /\ \E j \in 1..Len(hydrated_venues) :
                        /\ Sanitize(Get(hydrated_venues[j].name)) = Sanitize(n)
                        /\ files[Sanitize(n)] = DraftFor(j)
        ELSE generated_emails = <<>> /\ files = <<>>

\* The drafting stage has ended with an empty template and two venues.
C18_Witness ==
    /\ pc = "drafted"
    /\ TemplateIsEmpty
    /\ Len(hydrated_venues) = 2

\* C19 (as claimed): a draft that fails does not make write_and_save_emails
\* raise.
C19_FailedDraftTolerated ==
    (\E i \in 1..Len(email_tasks) : email_tasks[i] = "failed") => pc # "crashed"

\* C20: hydrate_venues starts, and every later stage runs, with no scoring
\* task pending, and write_and_save_emails has returned only with no drafting
\* task pending.
C20_StageBarrier ==
    /\ pc \in {"scored", "hydrated", "drafting", "drafted", "done"} =>
         \A i \in 1..Len(tasks) : tasks[i].status # "pending"
    /\ pc \in {"drafted", "done"} =>
         \A i \in 1..Len(email_tasks) : email_tasks[i] # "pending"

\* write_and_save_emails has returned after two scoring and two drafting
\* tasks.
C20_Witness ==
    /\ pc = "drafted"
    /\ Len(tasks) = 2
    /\ Len(email_tasks) = 2
    /\ generated_emails # <<>>

\* C21 (as claimed): while the sub-tasks of a stage are running, the stage's
\* part of the state is not written: venue_score during scoring,
\* generated_emails during drafting.
C21_SubTasksOnlyReturn ==
    [][/\ (pc = "scoring" /\ pc' = "scoring") => venue_score' = venue_score
       /\ (pc = "drafting" /\ pc' = "drafting") =>
              generated_emails' = generated_emails]_vars

\* C22: search_venues leaves the venues already in state.venues in place and
\* appends to them, in the order of the result, the venue of every item that
\* is an object and validates; the other items are dropped.
C22_ValidItemsAppendedInOrder ==
    [][(pc = "search" /\ pc' = "score" /\ search_result' # None
           /\ Get(search_result').kind = "list") =>
          /\ venues' = venues \o ValidVenuesOf(Get(search_result').items)
          /\ SubSeq(venues', 1, Len(venues)) = venues]_vars

\* search_venues has returned from a list of four items of which the second
\* is no object and the third does not validate: the first and the fourth
\* are the venues.
C22_Witness ==
    /\ pc = "score"
    /\ search_result # None
    /\ Get(search_result).kind = "list"
    /\ Len(Get(search_result).items) = 4
    /\ ~Get(search_result).items[2].dict
    /\ ~Get(search_result).items[3].valid
    /\ venues = <<Get(search_result).items[1].data,
                  Get(search_result).items[4].data>>

ValidChoices == {"1", "2", "3"}

\* C23: a call of the gate with an input that is none of the three choices
\* ends awaiting a choice again and leaves venues, scores, feedback, emails
\* and email files as they were.
C23_InvalidChoiceReprompts ==
    [][(pc \in {"scored", "reprompt"} /\ last_choice' # None
           /\ Get(last_choice') \notin ValidChoices) =>
          /\ pc' = "reprompt"
          /\ UNCHANGED <<venues, venue_score, scored_venues_feedback,
                         feedback_log, redos, generated_emails, files,
                         email_tasks, tasks>>]_vars

\* The gate has returned from an invalid input with two scores in the state.
C23_Witness ==
    /\ pc = "reprompt"
    /\ last_choice = Some("x")
    /\ Len(venue_score) = 2

\* The last place of the hydrated list whose venue has the file name of the
\* venue at place i.
LastWithFileNameOf(i) ==
    CHOOSE j \in 1..Len(hydrated_venues) :
        /\ Sanitize(Get(hydrated_venues[j].name))
             = Sanitize(Get(hydrated_venues[i].name))
        /\ \A k \in 1..Len(hydrated_venues) :
             Sanitize(Get(hydrated_venues[k].name))
               = Sanitize(Get(hydrated_venues[i].name)) => k <= j

\* C24 (as claimed): when the drafting stage has ended, the one file of two
\* venues with the same sanitized name holds the draft of the later of them
\* in list order.
C24_CollisionKeepsLaterVenue ==
    (DraftingEnded /\ TemplateIsEmpty) =>
        \A i \in 1..Len(hydrated_venues) :
            /\ Sanitize(Get(hydrated_venues[i].name)) \in DOMAIN files
            /\ files[Sanitize(Get(hydrated_venues[i].name))]
                 = DraftFor(LastWithFileNameOf(i))

FlowStarted == pc \notin {"call", "returned"}

SearchEnded == pc \notin {"call", "returned", "start", "search"}

\* C25: no step of a started flow changes input_data, and no step after the
\* search stage changes state.venues.
C25_InputsAndVenuesFrozen ==
    [][/\ (FlowStarted /\ input_data # None) => input_data' = input_data
       /\ SearchEnded => venues' = venues]_vars

\* A run has ended, drafts written, on the input data and the two venues the
\* search stage left.
C25_Witness ==
    /\ pc = "done"
    /\ input_data = Some(InputData(inputs))
    /\ Len(venues) = 2
    /\ Len(hydrated_venues) = 1
    /\ files # <<>>

\* A scoring pass has stored its scores and no later pass has started.
ScoringPassStored ==
    pc \in {"scored", "hydrated", "exited", "redo", "proceed", "reprompt",
           "drafting", "drafted", "done", "emailed"}

NumberUnscored ==
    Cardinality({i \in 1..Len(tasks) : tasks[i].status = "no_score"})

\* C26: a scoring pass that has stored its scores had one request per venue
\* and stored one VenueScore for each request that returned a score and none
\* for a request that returned none, so never more than there are venues.
C26_OneScorePerScoredVenue ==
    ScoringPassStored =>
        /\ Len(tasks) = Len(venues)
        /\ Len(venue_score) = Len(venues) - NumberUnscored
        /\ Len(venue_score) <= Len(venues)
        /\ \A i \in 1..Len(tasks) :
             tasks[i].status = "scored" =>
                 \E k \in 1..Len(venue_score) :
                     venue_score[k] = VenueScore(Get(tasks[i].data))

\* A first pass has stored one score for two venues, the request of the
\* first venue having returned no score.
C26_Witness ==
    /\ pc = "scored"
    /\ redos = 0
    /\ Len(venues) = 2
    /\ tasks[1].status = "no_score"
    /\ tasks[2].status = "scored"
    /\ venue_score = <<VenueScore(Get(tasks[2].data))>>

\* The place in a pass's results of the score of task i: the number of tasks
\* up to i that returned a score.
PlaceOfScore(i) ==
    Cardinality({j \in 1..i : tasks[j].status = "scored"})

\* C27: the scores a pass has stored are those of its tasks in task order,
\* which is the order of state.venues, in whatever order the tasks ended.
C27_ScoresInVenueOrder ==
    ScoringPassStored =>
        \A i \in 1..Len(tasks) :
            tasks[i].status = "scored" =>
                /\ PlaceOfScore(i) \in 1..Len(venue_score)
                /\ venue_score[PlaceOfScore(i)] = VenueScore(Get(tasks[i].data))

\* A pass has stored two different scores whose requests ended in the
\* reverse of the venues' order.
C27_Witness ==
    /\ pc = "scored"
    /\ completion = <<2, 1>>
    /\ Len(venue_score) = 2
    /\ venue_score[1] # venue_score[2]

\* C28 (as claimed): when the control panel has written the emails of a
\* non-empty template, the file of every hydrated venue holds the template
\* with {venue_name} replaced by the name of that venue.
C28_EachFileNamesItsVenue ==
    (pc = "emailed" /\ inputs.email_template # <<>>) =>
        \A i \in 1..Len(hydrated_venues) :
            /\ Get(hydrated_venues[i].name) \in DOMAIN literal_emails
            /\ literal_emails[Get(hydrated_venues[i].name)]
                 = ReplaceVenueName(inputs.email_template,
                                    Get(hydrated_venues[i].name))

\* C29 (as claimed): the status kickoff() returns is error with progress 0.0
\* when the run ended with no report in the state, and is completed, with
\* progress 1.0, only when a report was stored.
C29_StatusReflectsOutcome ==
    pc = "sf_returned" =>
        /\ report = None =>
             /\ Get(status).current_step = "error"
             /\ Get(status).progress = 0
        /\ Get(status).current_step = "completed" =>
             /\ report # None
             /\ Get(status).progress = 10

\* Some request of the run raised instead of returning.
RequestRaised ==
    \/ \E i \in 1..Len(tasks) : tasks[i].status = "failed"
    \/ \E i \in 1..Len(email_tasks) : email_tasks[i] = "failed"

\* C30 (as claimed): a flow that run_with_inputs has started on inputs with
\* every required field, none of whose requests raises and in which nobody
\* calls the gate, ends the drafting stage and returns the state.
C30_RunReturnsTheState ==
    (pc = "start" /\ ClaimedRequiredFields \subseteq inputs.keys)
        ~> \/ pc \in {"done", "emailed"} /\ result = Some("VenueScoreState")
           \/ RequestRaised
           \/ last_choice # None

=============================================================================
